---------------------------- MODULE Spec2Model ----------------------------
(***************************************************************************)
(* xtd::optional<T> (src/xtd/optional.hpp) as a state machine.             *)
(*                                                                         *)
(* The state is a test scope holding two optional<T> objects, a and b,     *)
(* over an instrumented T (the Counter of src/test/xtd/optional.cpp) whose *)
(* special member functions bump a shared Counters block.  Every public    *)
(* operation of optional is one action; the private helpers (engage,       *)
(* disengage, ValueStorage::construct, ValueStorage::destroy) are          *)
(* operators on the "machine" record m = [opt, c, log, exc] that the       *)
(* actions thread through in the order the code runs them.  log is the     *)
(* ordered list of the T operations and _engaged writes of the operation   *)
(* that ran last; exc is the exception in flight.                          *)
(*                                                                         *)
(* The other components modelled further down are independent of it and   *)
(* of each other, each with a specification of its own: basic_string_view *)
(* (SpecSV), xtd::accumulate (SpecNum) and the alignment helpers (SpecMem).*)
(***************************************************************************)
EXTENDS Integers, Sequences, FiniteSets, TLC

\* Bound on the number of T operations recorded before the scope only unwinds.
MaxOps == 3

\* The optional<T> objects of the scope (named as in the tests).
Opt == {"a", "b"}

\* Values of T: "" is the value-initialised / moved-from T (std::string{}).
Moved == ""
Val == {Moved, "x", "y"}

\* Content of the union's storage while no T lives in it.
None == "none"

\* Pseudo-slots for objects that are not inside an optional.
Temp == "temp"
Ret == "ret"

VARIABLES
    opt,      \* opt[i] = [alive, engaged, value]: the object, _engaged, _value
    c,        \* the Counters block shared by every T
    trivial,  \* std::is_trivially_destructible<T>::value (selects the holder)
    log,      \* events of the last operation, in program order
    last,     \* the last operation: name, operands, state before, outcome
    twin,     \* the same scope over the other holder specialisation (T with
              \* the opposite std::is_trivially_destructible): opt, log, exc, ret
    sv,       \* a basic_string_view over a character array and its last call
    num,      \* a call of xtd::accumulate in progress
    mem       \* the last call of the alignment helpers

vars == <<opt, c, trivial, log, last, twin, sv, num, mem>>

\* The components are independent: while one is exercised the others idle.
Idle == [call |-> "idle"]

Dead == [alive |-> FALSE, engaged |-> FALSE, value |-> None]

\* struct Counters: all zero.
Counters == [ctor |-> 0, copyCtor |-> 0, moveCtor |-> 0, dtor |-> 0, assign |-> 0, move |-> 0]

Total(k) == k.ctor + k.copyCtor + k.moveCtor + k.dtor + k.assign + k.move

Constructed(k) == k.ctor + k.copyCtor + k.moveCtor

\* Number of events of the given kind in a log.
Count(l, kind) == Cardinality({n \in DOMAIN l : l[n][1] = kind})

\* Positions of the events of a kind on a slot.
At(l, kind, i) == {n \in DOMAIN l : l[n] = <<kind, i>>}

NoOp == [op |-> "none", self |-> "a", other |-> "a", arg |-> None,
         pre |-> [i \in Opt |-> Dead], exc |-> "none", ret |-> None]

\* The machine an operation starts from.
Cur == [opt |-> opt, c |-> c, log |-> <<>>, exc |-> "none", ret |-> None]

\* Which of an operation's T operations throws: 0 for none, n for the n-th
\* (the longest operation, swap of two engaged optionals, runs three).
Throws == 0..3

\* The same for an operation that runs at most one T operation.
Throw1 == 0..1

----------------------------------------------------------------------------
(* T's special member functions (Counter) and what they leave behind.      *)

\* A T constructor running on slot i's storage: kind is ctor, copyCtor or
\* moveCtor; th: the constructor throws (no object comes to exist).
T_ctor(m, i, kind, v, th) ==
    IF th
    THEN [m EXCEPT !.log = Append(@, <<"throw", i>>), !.exc = "T"]
    ELSE [m EXCEPT !.opt[i].value = v,
                   !.c[kind] = @ + 1,
                   !.log = Append(@, <<kind, i>>)]

\* A T constructor or destructor of an object outside any optional (a
\* temporary, a returned value).
T_outside(m, kind, where, th) ==
    IF th
    THEN [m EXCEPT !.log = Append(@, <<"throw", where>>), !.exc = "T"]
    ELSE [m EXCEPT !.c[kind] = @ + 1, !.log = Append(@, <<kind, where>>)]

\* ~T() on slot i's storage.
T_dtor(m, i) ==
    [m EXCEPT !.opt[i].value = None,
              !.c.dtor = @ + 1,
              !.log = Append(@, <<"dtor", i>>)]

\* T::operator= on the T in slot i: kind is assign (copy) or move; th: it
\* throws, leaving the target a valid T: its old value, or Moved when mf.
T_assign(m, i, kind, v, th, mf) ==
    IF th
    THEN [m EXCEPT !.opt[i].value = IF mf THEN Moved ELSE @,
                   !.log = Append(@, <<"throw", i>>),
                   !.exc = "T"]
    ELSE [m EXCEPT !.opt[i].value = v,
                   !.c[kind] = @ + 1,
                   !.log = Append(@, <<kind, i>>)]

\* The source of a completed move: it keeps its value (int) or is emptied
\* (std::string), as T decides.
MovedFrom(m, j, mf) ==
    IF mf THEN [m EXCEPT !.opt[j].value = Moved] ELSE m

----------------------------------------------------------------------------
(* detail::optional::ValueStorage and the private helpers of optional.     *)

\* A write of this->_engaged.
SetEngagedTrue(m, i) ==
    [m EXCEPT !.opt[i].engaged = TRUE, !.log = Append(@, <<"engaged:=true", i>>)]

SetEngagedFalse(m, i) ==
    [m EXCEPT !.opt[i].engaged = FALSE, !.log = Append(@, <<"engaged:=false", i>>)]

\* Mutation of construct: _engaged is set before the placement-new.
construct_flag_first(m, i, kind, v, th) ==
    T_ctor(SetEngagedTrue(m, i), i, kind, v, th)

\* ValueStorage::construct: placement-new, then _engaged = true.
construct(m, i, kind, v, th) ==
    LET n == T_ctor(m, i, kind, v, th)
    IN  IF n.exc # "none" THEN n ELSE SetEngagedTrue(n, i)

\* Mutation of destroy: ~T() first, then _engaged = false.
destroy_dtor_first(m, i) == SetEngagedFalse(T_dtor(m, i), i)

\* Mutation of destroy: the flag is cleared, ~T() is forgotten.
destroy_no_dtor(m, i) == SetEngagedFalse(m, i)

\* ValueStorage::destroy: _engaged = false, then ~T().
destroy(m, i) == T_dtor(SetEngagedFalse(m, i), i)

\* optional::operator bool / ValueStorage::engaged.
engaged(m, i) == m.opt[i].engaged

\* optional::disengage.
disengage(m, i) == IF engaged(m, i) THEN destroy(m, i) ELSE m

\* optional::engage: the assertion (compiled out under NDEBUG, as in the
\* tests) is recorded when it would fail; then ValueStorage::construct.
engage(m, i, kind, v, th) ==
    LET a == IF engaged(m, i)
             THEN [m EXCEPT !.log = Append(@, <<"assert_fail", i>>)]
             ELSE m
    IN  construct(a, i, kind, v, th)

\* ValueStorageHolder(in_place_t, bool engaged, Args&&...): _engaged is
\* initialised first, then the value is placement-constructed if engaged.
Holder_in_place(m, i, eng, kind, v, th) ==
    LET n == [m EXCEPT !.opt[i] = [alive |-> FALSE, engaged |-> eng, value |-> None],
                       !.log = Append(@, <<IF eng THEN "engaged:=true" ELSE "engaged:=false", i>>)]
    IN  IF eng THEN T_ctor(n, i, kind, v, th) ELSE n

\* ValueStorageHolder(Args&&...): _engaged(true), _value(args...).
Holder_value(m, i, kind, v, th) ==
    LET n == T_ctor([m EXCEPT !.opt[i] = [alive |-> FALSE, engaged |-> FALSE, value |-> None]],
                    i, kind, v, th)
    IN  IF n.exc # "none" THEN n ELSE SetEngagedTrue(n, i)

\* ValueStorageHolder(): _engaged(false).
Holder_default(m, i) ==
    [m EXCEPT !.opt[i] = [alive |-> FALSE, engaged |-> FALSE, value |-> None]]

\* Mutation of Holder_dtor: the general holder runs ~T() without looking
\* at _engaged.
Holder_dtor_always(m, i, triv) ==
    LET n == IF ~triv THEN T_dtor(m, i) ELSE m
    IN  [n EXCEPT !.opt[i] = Dead]

\* ~ValueStorageHolder: T's destructor runs only in the general holder.
Holder_dtor(m, i, triv) ==
    LET n == IF ~triv /\ m.opt[i].engaged THEN T_dtor(m, i) ELSE m
    IN  [n EXCEPT !.opt[i] = Dead]

\* A constructor that ran to completion makes the object exist; one that
\* threw leaves no object behind.
Constructed_or_gone(m, i) ==
    IF m.exc = "none" THEN [m EXCEPT !.opt[i].alive = TRUE]
    ELSE [m EXCEPT !.opt[i] = Dead]

----------------------------------------------------------------------------
(* The public operations of optional<T>, as functions of the machine.      *)

\* optional() = default and optional(nullopt_t).
optional_default(m, i) == Constructed_or_gone(Holder_default(m, i), i)

optional_nullopt(m, i) == Constructed_or_gone(Holder_default(m, i), i)

\* Mutation of optional_copy: the value is default-constructed and then
\* copy-assigned.
optional_copy_via_assign(m, i, j, th) ==
    IF m.opt[j].engaged
    THEN LET n == Holder_value(m, i, "ctor", Moved, th = 1)
         IN  Constructed_or_gone(
                 IF n.exc = "none"
                 THEN T_assign(n, i, "assign", m.opt[j].value, FALSE, FALSE)
                 ELSE n, i)
    ELSE Constructed_or_gone(Holder_default(m, i), i)

\* optional(const optional& other) : _storage(other._storage).
optional_copy(m, i, j, th) ==
    Constructed_or_gone(
        Holder_in_place(m, i, m.opt[j].engaged, "copyCtor", m.opt[j].value, th = 1), i)

\* Mutation of optional_move: the moved-from source is disengaged.
optional_move_steals(m, i, j, th, mf) ==
    LET n == Holder_in_place(m, i, m.opt[j].engaged, "moveCtor", m.opt[j].value, th = 1)
        k == IF n.exc = "none" /\ m.opt[j].engaged THEN disengage(n, j) ELSE n
    IN  Constructed_or_gone(k, i)

\* optional(optional&& other) : _storage(std::move(other._storage)).
optional_move(m, i, j, th, mf) ==
    LET n == Holder_in_place(m, i, m.opt[j].engaged, "moveCtor", m.opt[j].value, th = 1)
        k == IF n.exc = "none" /\ m.opt[j].engaged THEN MovedFrom(n, j, mf) ELSE n
    IN  Constructed_or_gone(k, i)

\* optional(const T& value), optional(T&& value), optional(in_place_t, args...).
optional_value(m, i, kind, v, th) ==
    Constructed_or_gone(Holder_value(m, i, kind, v, th = 1), i)

\* ~optional() = default.
optional_dtor(m, i, triv) == Holder_dtor(m, i, triv)

\* Mutation of assign_nullopt: destroy without asking whether engaged.
assign_nullopt_unchecked(m, i) == destroy(m, i)

\* operator=(nullopt_t).
assign_nullopt(m, i) == disengage(m, i)

\* Mutation of assign_copy: assigning a disengaged optional is ignored.
assign_copy_keeps(m, i, j, th, mf) ==
    IF engaged(m, i) /\ engaged(m, j)
    THEN T_assign(m, i, "assign", m.opt[j].value, th = 1, mf)
    ELSE IF ~engaged(m, i) /\ engaged(m, j)
    THEN engage(m, i, "copyCtor", m.opt[j].value, th = 1)
    ELSE m

\* operator=(const optional& other).
assign_copy(m, i, j, th, mf) ==
    IF engaged(m, i) /\ engaged(m, j)
    THEN T_assign(m, i, "assign", m.opt[j].value, th = 1, mf)
    ELSE IF engaged(m, i) /\ ~engaged(m, j)
    THEN disengage(m, i)
    ELSE IF ~engaged(m, i) /\ engaged(m, j)
    THEN engage(m, i, "copyCtor", m.opt[j].value, th = 1)
    ELSE m

\* Mutation of assign_move: an engaged target is destroyed and rebuilt
\* instead of being assigned to.
assign_move_recreate(m, i, j, th, mf) ==
    IF engaged(m, j)
    THEN LET n == engage(disengage(m, i), i, "moveCtor", m.opt[j].value, th = 1)
         IN  IF n.exc = "none" THEN MovedFrom(n, j, mf) ELSE n
    ELSE disengage(m, i)

\* Mutation of assign_move: the value is constructed over whatever the
\* target holds, without looking at the target's state.
assign_move_constructs_over(m, i, j, th, mf) ==
    IF engaged(m, j)
    THEN LET n == engage(m, i, "moveCtor", m.opt[j].value, th = 1)
         IN  IF n.exc = "none" THEN MovedFrom(n, j, mf) ELSE n
    ELSE disengage(m, i)

\* operator=(optional&& other).
assign_move(m, i, j, th, mf) ==
    IF engaged(m, i) /\ engaged(m, j)
    THEN LET n == T_assign(m, i, "move", m.opt[j].value, th = 1, mf)
         IN  IF n.exc = "none" THEN MovedFrom(n, j, mf) ELSE n
    ELSE IF engaged(m, i) /\ ~engaged(m, j)
    THEN disengage(m, i)
    ELSE IF ~engaged(m, i) /\ engaged(m, j)
    THEN LET n == engage(m, i, "moveCtor", m.opt[j].value, th = 1)
         IN  IF n.exc = "none" THEN MovedFrom(n, j, mf) ELSE n
    ELSE m

\* Mutation of assign_value: always assigns, also into a disengaged optional.
assign_value_assign_only(m, i, v, rv, th, mf) ==
    T_assign(m, i, IF rv THEN "move" ELSE "assign", v, th = 1, mf)

\* Mutation of assign_value: destroy, then construct from the value.
assign_value_recreate(m, i, v, rv, th, mf) ==
    engage(disengage(m, i), i, IF rv THEN "moveCtor" ELSE "copyCtor", v, th = 1)

\* operator=(U&& value): rv tells whether value is an rvalue.
assign_value(m, i, v, rv, th, mf) ==
    IF engaged(m, i)
    THEN T_assign(m, i, IF rv THEN "move" ELSE "assign", v, th = 1, mf)
    ELSE engage(m, i, IF rv THEN "moveCtor" ELSE "copyCtor", v, th = 1)

\* Mutation of emplace: the old value is not destroyed first.
emplace_no_disengage(m, i, v, th) == engage(m, i, "ctor", v, th = 1)

\* emplace(args...).
emplace(m, i, v, th) == engage(disengage(m, i), i, "ctor", v, th = 1)

\* swap(T&, T&) as the tests define it and as std::swap does: a temporary
\* is move-constructed, two move-assignments follow, the temporary dies
\* (also when one of the assignments throws and the stack unwinds).
T_swap(m, i, j, th, mf) ==
    LET x  == m.opt[i].value
        s1 == T_outside(m, "moveCtor", Temp, th = 1)
        m1 == IF s1.exc = "none" THEN MovedFrom(s1, i, mf) ELSE s1
        s2 == T_assign(m1, i, "move", m1.opt[j].value, th = 2, mf)
        m2 == IF s2.exc = "none" THEN MovedFrom(s2, j, mf) ELSE s2
        s3 == T_assign(m2, j, "move", x, th = 3, mf)
    IN  IF s1.exc # "none" THEN s1
        ELSE IF s2.exc # "none" THEN T_outside(s2, "dtor", Temp, FALSE)
        ELSE T_outside(s3, "dtor", Temp, FALSE)

\* Mutation of swap: two engaged optionals are destroyed and rebuilt from
\* each other's value instead of swapping the values in place.
swap_rebuild(m, i, j, th, mf) ==
    IF engaged(m, i) /\ engaged(m, j)
    THEN LET x  == m.opt[i].value
             y  == m.opt[j].value
             n1 == T_outside(m, "moveCtor", Temp, FALSE)
             n2 == engage(disengage(n1, i), i, "moveCtor", y, FALSE)
             n3 == engage(disengage(n2, j), j, "moveCtor", x, FALSE)
         IN  T_outside(n3, "dtor", Temp, FALSE)
    ELSE IF engaged(m, j) /\ ~engaged(m, i)
    THEN LET n == engage(m, i, "moveCtor", m.opt[j].value, th = 1)
         IN  IF n.exc = "none" THEN disengage(MovedFrom(n, j, mf), j) ELSE n
    ELSE IF engaged(m, i) /\ ~engaged(m, j)
    THEN LET n == engage(m, j, "moveCtor", m.opt[i].value, th = 1)
         IN  IF n.exc = "none" THEN disengage(MovedFrom(n, i, mf), i) ELSE n
    ELSE m

\* Mutation of swap: with one side engaged, the source is destroyed before
\* its value is moved to the other side.
swap_destroy_first(m, i, j, th, mf) ==
    IF engaged(m, i) /\ engaged(m, j)
    THEN T_swap(m, i, j, th, mf)
    ELSE IF engaged(m, j) /\ ~engaged(m, i)
    THEN LET n == disengage(m, j)
         IN  engage(n, i, "moveCtor", n.opt[j].value, th = 1)
    ELSE IF engaged(m, i) /\ ~engaged(m, j)
    THEN LET n == disengage(m, i)
         IN  engage(n, j, "moveCtor", n.opt[i].value, th = 1)
    ELSE m

\* Mutation of swap: the side the value was moved out of stays engaged.
swap_no_disengage(m, i, j, th, mf) ==
    IF engaged(m, i) /\ engaged(m, j)
    THEN T_swap(m, i, j, th, mf)
    ELSE IF engaged(m, j) /\ ~engaged(m, i)
    THEN LET n == engage(m, i, "moveCtor", m.opt[j].value, th = 1)
         IN  IF n.exc = "none" THEN MovedFrom(n, j, mf) ELSE n
    ELSE IF engaged(m, i) /\ ~engaged(m, j)
    THEN LET n == engage(m, j, "moveCtor", m.opt[i].value, th = 1)
         IN  IF n.exc = "none" THEN MovedFrom(n, i, mf) ELSE n
    ELSE m

\* optional::swap(optional& other).
swap(m, i, j, th, mf) ==
    IF engaged(m, i) /\ engaged(m, j)
    THEN T_swap(m, i, j, th, mf)
    ELSE IF engaged(m, j) /\ ~engaged(m, i)
    THEN LET n == engage(m, i, "moveCtor", m.opt[j].value, th = 1)
         IN  IF n.exc = "none" THEN disengage(MovedFrom(n, j, mf), j) ELSE n
    ELSE IF engaged(m, i) /\ ~engaged(m, j)
    THEN LET n == engage(m, j, "moveCtor", m.opt[i].value, th = 1)
         IN  IF n.exc = "none" THEN disengage(MovedFrom(n, i, mf), i) ELSE n
    ELSE m

\* Mutation of value: no check, as operator*.
value_unchecked(m, i) == [m EXCEPT !.ret = m.opt[i].value]

\* operator*: the stored value (the optional is engaged, else undefined).
deref(m, i) == m.opt[i].value

\* value(): bad_optional_access when disengaged, else a reference to _value.
value(m, i) ==
    IF ~engaged(m, i)
    THEN [m EXCEPT !.log = Append(@, <<"throw", i>>), !.exc = "bad_optional_access"]
    ELSE [m EXCEPT !.ret = m.opt[i].value]

\* The T returned by value is built (kind) from v; the caller's full
\* expression then ends and destroys it.
Returned(m, kind, v, th) ==
    LET n == T_outside(m, kind, Ret, th)
    IN  IF n.exc # "none" THEN n
        ELSE T_outside([n EXCEPT !.ret = v], "dtor", Ret, FALSE)

\* value_or(U&&) const&:  *this ? **this : static_cast<T>(value).
value_or(m, i, d, th) ==
    IF engaged(m, i)
    THEN Returned(m, "copyCtor", m.opt[i].value, th = 1)
    ELSE Returned(m, "ctor", d, th = 1)

\* Mutation of value_or_rvalue: the optional gives its value away.
value_or_rvalue_steals(m, i, d, th, mf) ==
    IF engaged(m, i)
    THEN LET n == Returned(m, "moveCtor", m.opt[i].value, th = 1)
         IN  IF n.exc = "none" THEN disengage(n, i) ELSE n
    ELSE Returned(m, "ctor", d, th = 1)

\* value_or(U&&) &&:  *this ? std::move(**this) : static_cast<T>(value).
value_or_rvalue(m, i, d, th, mf) ==
    IF engaged(m, i)
    THEN LET n == Returned(m, "moveCtor", m.opt[i].value, th = 1)
         IN  IF n.exc = "none" THEN MovedFrom(n, i, mf) ELSE n
    ELSE Returned(m, "ctor", d, th = 1)

----------------------------------------------------------------------------
(* The free functions on optional<T>.                                      *)

\* T's operator==.
T_eq(v, w) == v = w

\* Mutation of operator_eq: only engaged optionals can be equal.
operator_eq_engaged_only(m, i, j) ==
    engaged(m, i) /\ engaged(m, j) /\ T_eq(m.opt[i].value, m.opt[j].value)

\* operator==(const optional<T>& lhs, const optional<T>& rhs).
operator_eq(m, i, j) ==
    IF engaged(m, i) # engaged(m, j)
    THEN FALSE
    ELSE (IF engaged(m, i) THEN T_eq(m.opt[i].value, m.opt[j].value) ELSE TRUE)

\* operator==(const optional<T>& opt, nullopt_t).
operator_eq_nullopt(m, i) == ~engaged(m, i)

\* operator==(nullopt_t, const optional<T>& opt).
nullopt_eq_operator(m, i) == ~engaged(m, i)

\* T's operator<: a strict total order of the values.
T_lt(v, w) ==
    \/ v = Moved /\ w # Moved
    \/ v = "x" /\ w = "y"

\* operator!=(const optional<T>& lhs, const optional<T>& rhs).
operator_ne(m, i, j) == ~operator_eq(m, i, j)

\* Mutation of operator_lt: the left side is tested first, so a disengaged
\* optional is less than a disengaged one.
operator_lt_lhs_first(m, i, j) ==
    IF ~engaged(m, i)
    THEN TRUE
    ELSE (IF ~engaged(m, j) THEN FALSE ELSE T_lt(m.opt[i].value, m.opt[j].value))

\* operator<(const optional<T>& lhs, const optional<T>& rhs).
operator_lt(m, i, j) ==
    IF ~engaged(m, j)
    THEN FALSE
    ELSE (IF ~engaged(m, i) THEN TRUE ELSE T_lt(m.opt[i].value, m.opt[j].value))

\* operator>(const optional<T>& lhs, const optional<T>& rhs).
operator_gt(m, i, j) == operator_lt(m, j, i)

\* operator<=(const optional<T>& lhs, const optional<T>& rhs).
operator_le(m, i, j) == ~operator_lt(m, j, i)

\* operator>=(const optional<T>& lhs, const optional<T>& rhs).
operator_ge(m, i, j) == ~operator_lt(m, i, j)

\* operator==(const optional<T>& opt, const T& value).
operator_eq_value(m, i, v) == IF engaged(m, i) THEN T_eq(m.opt[i].value, v) ELSE FALSE

\* operator==(const T& value, const optional<T>& opt).
value_eq_operator(m, v, i) == IF engaged(m, i) THEN T_eq(v, m.opt[i].value) ELSE FALSE

\* operator!=(const T& value, const optional<T>& opt).
value_ne_operator(m, v, i) == IF engaged(m, i) THEN ~T_eq(m.opt[i].value, v) ELSE TRUE

\* operator!=(const optional<T>& opt, const T& value).
operator_ne_value(m, i, v) == IF engaged(m, i) THEN ~T_eq(m.opt[i].value, v) ELSE TRUE

\* operator<(const optional<T>& opt, const T& value).
operator_lt_value(m, i, v) == IF engaged(m, i) THEN T_lt(m.opt[i].value, v) ELSE TRUE

\* operator<(const T& value, const optional<T>& opt).
value_lt_operator(m, v, i) == IF engaged(m, i) THEN T_lt(v, m.opt[i].value) ELSE TRUE

\* operator>(const optional<T>& opt, const T& value).
operator_gt_value(m, i, v) == IF engaged(m, i) THEN T_lt(v, m.opt[i].value) ELSE TRUE

\* operator>(const T& value, const optional<T>& opt).
value_gt_operator(m, v, i) == IF engaged(m, i) THEN T_lt(m.opt[i].value, v) ELSE TRUE

\* optional<T>(v): the machine in which slot j is an engaged optional
\* holding v.
optional_of(m, j, v) == [m EXCEPT !.opt[j] = [alive |-> TRUE, engaged |-> TRUE, value |-> v]]

\* std::hash<Key>, a function of the value alone (of whatever the storage
\* holds when it is applied to it).
hash_T(v) ==
    CASE v = Moved -> 11
      [] v = "x" -> 23
      [] v = "y" -> 42
      [] OTHER -> 99

\* hash<Key>::result_type{}.
result_type_zero == 0

\* Mutation of std_hash: the value is hashed without looking at _engaged.
std_hash_unchecked(m, i) == hash_T(m.opt[i].value)

\* std::hash<xtd::optional<Key>>::operator().
std_hash(m, i) == IF engaged(m, i) THEN hash_T(m.opt[i].value) ELSE result_type_zero

----------------------------------------------------------------------------
(* The state machine: a scope in which a and b are constructed, operated   *)
(* on and destroyed in any order.                                          *)

Init ==
    /\ opt = [i \in Opt |-> Dead]
    /\ c = Counters
    /\ trivial \in BOOLEAN
    /\ log = <<>>
    /\ last = NoOp
    /\ twin = [opt |-> [i \in Opt |-> Dead], log |-> <<>>, exc |-> "none", ret |-> None]
    /\ sv = Idle /\ num = Idle /\ mem = Idle

\* The machine the twin scope starts the same operation from.
TwinCur == [opt |-> twin.opt, c |-> c, log |-> <<>>, exc |-> "none", ret |-> None]

\* The operation is over: its machine n becomes the state; t is the machine
\* of the twin scope, which ran the same operation over the other
\* ValueStorageHolder specialisation.
Commit(n, t, name, i, j, v) ==
        /\ opt' = n.opt
        /\ c' = n.c
        /\ log' = n.log
        /\ last' = [op |-> name, self |-> i, other |-> j, arg |-> v,
                    pre |-> opt, exc |-> n.exc, ret |-> n.ret]
        /\ twin' = [opt |-> t.opt, log |-> t.log, exc |-> t.exc, ret |-> t.ret]
        /\ UNCHANGED <<trivial, sv, num, mem>>

\* The scope still runs operations (afterwards it only unwinds).
Running == Total(c) < MaxOps

ConstructDefault(i) ==
    /\ Running /\ ~opt[i].alive
    /\ Commit(optional_default(Cur, i), optional_default(TwinCur, i), "optional()", i, i, None)

ConstructNullopt(i) ==
    /\ Running /\ ~opt[i].alive
    /\ Commit(optional_nullopt(Cur, i), optional_nullopt(TwinCur, i), "optional(nullopt)", i, i, None)

ConstructCopy(i, j) ==
    /\ Running /\ ~opt[i].alive /\ opt[j].alive
    /\ \E th \in Throw1 :
         Commit(optional_copy(Cur, i, j, th),
           optional_copy(TwinCur, i, j, th), "optional(const optional&)", i, j, None)

ConstructMove(i, j) ==
    /\ Running /\ ~opt[i].alive /\ opt[j].alive
    /\ \E th \in Throw1, mf \in BOOLEAN :
         Commit(optional_move(Cur, i, j, th, mf),
           optional_move(TwinCur, i, j, th, mf), "optional(optional&&)", i, j, None)

ConstructValue(i) ==
    /\ Running /\ ~opt[i].alive
    /\ \E v \in Val, th \in Throw1 :
         \/ Commit(optional_value(Cur, i, "copyCtor", v, th),
           optional_value(TwinCur, i, "copyCtor", v, th), "optional(const T&)", i, i, v)
         \/ Commit(optional_value(Cur, i, "moveCtor", v, th),
           optional_value(TwinCur, i, "moveCtor", v, th), "optional(T&&)", i, i, v)
         \/ Commit(optional_value(Cur, i, "ctor", v, th),
           optional_value(TwinCur, i, "ctor", v, th), "optional(in_place)", i, i, v)

Destroy(i) ==
    /\ opt[i].alive
    /\ Commit(optional_dtor(Cur, i, trivial),
           optional_dtor(TwinCur, i, ~trivial), "~optional", i, i, None)

AssignNullopt(i) ==
    /\ Running /\ opt[i].alive
    /\ Commit(assign_nullopt(Cur, i), assign_nullopt(TwinCur, i), "=nullopt", i, i, None)

AssignCopy(i, j) ==
    /\ Running /\ opt[i].alive /\ opt[j].alive
    /\ \E th \in Throw1, mf \in BOOLEAN :
         Commit(assign_copy(Cur, i, j, th, mf),
           assign_copy(TwinCur, i, j, th, mf), "=copy", i, j, None)

AssignMove(i, j) ==
    /\ Running /\ opt[i].alive /\ opt[j].alive
    /\ \E th \in Throw1, mf \in BOOLEAN :
         Commit(assign_move(Cur, i, j, th, mf),
           assign_move(TwinCur, i, j, th, mf), "=move", i, j, None)

AssignValue(i) ==
    /\ Running /\ opt[i].alive
    /\ \E v \in Val, rv \in BOOLEAN, th \in Throw1, mf \in BOOLEAN :
         Commit(assign_value(Cur, i, v, rv, th, mf),
           assign_value(TwinCur, i, v, rv, th, mf),
                IF rv THEN "=T&&" ELSE "=const T&", i, i, v)

Emplace(i) ==
    /\ Running /\ opt[i].alive
    /\ \E v \in Val, th \in Throw1 :
         Commit(emplace(Cur, i, v, th), emplace(TwinCur, i, v, th), "emplace", i, i, v)

Swap(i, j) ==
    /\ Running /\ opt[i].alive /\ opt[j].alive
    /\ \E th \in Throws, mf \in BOOLEAN :
         Commit(swap(Cur, i, j, th, mf), swap(TwinCur, i, j, th, mf), "swap", i, j, None)

Value(i) ==
    /\ Running /\ opt[i].alive
    /\ Commit(value(Cur, i), value(TwinCur, i), "value", i, i, None)

ValueOr(i) ==
    /\ Running /\ opt[i].alive
    /\ \E d \in Val, th \in Throw1 :
         Commit(value_or(Cur, i, d, th), value_or(TwinCur, i, d, th), "value_or", i, i, d)

ValueOrRvalue(i) ==
    /\ Running /\ opt[i].alive
    /\ \E d \in Val, th \in Throw1, mf \in BOOLEAN :
         Commit(value_or_rvalue(Cur, i, d, th, mf),
           value_or_rvalue(TwinCur, i, d, th, mf), "value_or&&", i, i, d)

Next ==
    \/ \E i \in Opt :
        \/ ConstructDefault(i)
        \/ ConstructNullopt(i)
        \/ ConstructValue(i)
        \/ Destroy(i)
        \/ AssignNullopt(i)
        \/ AssignValue(i)
        \/ Emplace(i)
        \/ Value(i)
        \/ ValueOr(i)
        \/ ValueOrRvalue(i)
    \/ \E i \in Opt, j \in Opt :
        \/ ConstructCopy(i, j)
        \/ ConstructMove(i, j)
        \/ AssignCopy(i, j)
        \/ AssignMove(i, j)
        \/ Swap(i, j)

Spec == Init /\ [][Next]_vars

----------------------------------------------------------------------------
(* Vocabulary of the properties.                                           *)

TKinds == {"ctor", "copyCtor", "moveCtor", "dtor", "assign", "move"}

\* The T operations of a log, in order, without the _engaged writes.
TLog(l) == SelectSeq(l, LAMBDA e : e[1] \in TKinds)

S == last.self
O == last.other
Ok == last.exc = "none"
Engaged(i) == opt[i].engaged
WasEngaged(i) == last.pre[i].engaged
AllGone == \A i \in Opt : ~opt[i].alive
LiveValues == Cardinality({i \in Opt : opt[i].alive /\ opt[i].engaged})

----------------------------------------------------------------------------
\* C1: over a T with a real destructor, the T constructed and not yet
\* destroyed are exactly the values of the engaged optionals, T is never
\* destroyed more often than constructed, and once every optional of the
\* scope is destroyed the destructor calls equal the constructor calls
\* (in-place + copy + move).
C1_Balance ==
    ~trivial =>
        /\ c.dtor <= Constructed(c)
        /\ Constructed(c) - c.dtor = LiveValues
        /\ (AllGone => c.dtor = Constructed(c))

C1_Witness ==
    /\ ~trivial /\ AllGone /\ last.op = "~optional"
    /\ c.dtor >= 2 /\ c.copyCtor + c.moveCtor >= 1

\* C2: copy-assignment (move-assignment) with not both sides engaged:
\* disengaged <- disengaged runs no T operation; disengaged <- engaged
\* runs exactly one copy- (move-) construction and engages the target with
\* the source's value; engaged <- disengaged runs exactly one destructor
\* and disengages the target.  The source's engaged state never changes.
C2_AssignMatrix ==
    (last.op \in {"=copy", "=move"} /\ Ok /\ ~(WasEngaged(S) /\ WasEngaged(O))) =>
        LET made == IF last.op = "=copy" THEN "copyCtor" ELSE "moveCtor"
        IN  /\ (~WasEngaged(S) /\ ~WasEngaged(O)) =>
                 (TLog(log) = <<>> /\ ~Engaged(S))
            /\ (~WasEngaged(S) /\ WasEngaged(O)) =>
                 /\ TLog(log) = << <<made, S>> >>
                 /\ Engaged(S) /\ opt[S].value = last.pre[O].value
            /\ (WasEngaged(S) /\ ~WasEngaged(O)) =>
                 (TLog(log) = << <<"dtor", S>> >> /\ ~Engaged(S))
            /\ Engaged(O) = WasEngaged(O)

C2_Witness ==
    /\ last.op = "=copy" /\ Ok /\ S # O
    /\ ~WasEngaged(S) /\ WasEngaged(O) /\ Engaged(S) /\ opt[S].value = "x"

\* C3: engaged <- another engaged optional runs exactly one T copy-
\* assignment (one T move-assignment for a moved source), no constructor
\* and no destructor; both stay engaged, the target has the source's value.
C3_AssignReuses ==
    (last.op \in {"=copy", "=move"} /\ Ok /\ S # O /\ WasEngaged(S) /\ WasEngaged(O)) =>
        /\ TLog(log) = << <<IF last.op = "=copy" THEN "assign" ELSE "move", S>> >>
        /\ Engaged(S) /\ Engaged(O)
        /\ opt[S].value = last.pre[O].value

C3_Witness ==
    /\ last.op = "=move" /\ Ok /\ S # O /\ WasEngaged(S) /\ WasEngaged(O)
    /\ last.pre[S].value = "x" /\ opt[S].value = "y"

\* C4: move-construction and move-assignment leave the source's engaged
\* state as it was and run no destructor on the source.
C4_MoveKeepsSource ==
    (last.op \in {"optional(optional&&)", "=move"}) =>
        /\ opt[O].alive
        /\ Engaged(O) = WasEngaged(O)
        /\ At(log, "dtor", O) = {}

C4_Witness ==
    /\ last.op = "optional(optional&&)" /\ Ok
    /\ last.pre[O].value = "x" /\ Engaged(O) /\ opt[O].value = Moved
    /\ Engaged(S) /\ opt[S].value = "x"

\* C5: a completed emplace on an engaged optional runs the destructor of
\* the old value and then one constructor, on a disengaged optional one
\* constructor only; no T assignment; the optional ends engaged with the
\* value built from the arguments.
C5_Emplace ==
    (last.op = "emplace" /\ Ok) =>
        /\ TLog(log) = IF WasEngaged(S)
                       THEN << <<"dtor", S>>, <<"ctor", S>> >>
                       ELSE << <<"ctor", S>> >>
        /\ Engaged(S) /\ opt[S].value = last.arg

C5_Witness ==
    /\ last.op = "emplace" /\ Ok /\ WasEngaged(S)
    /\ last.pre[S].value = "x" /\ opt[S].value = "y"

\* C6: an emplace whose T constructor throws leaves the optional
\* disengaged; a value it held was destroyed exactly once, and destroying
\* the optional afterwards runs no T destructor.
C6_EmplaceThrows ==
    /\ [](( last.op = "emplace" /\ last.exc = "T") =>
            /\ ~Engaged(S)
            /\ TLog(log) = (IF WasEngaged(S) THEN << <<"dtor", S>> >> ELSE <<>>))
    /\ [][(last.op = "emplace" /\ last.exc = "T"
           /\ last'.op = "~optional" /\ last'.self = last.self)
          => Count(log', "dtor") = 0]_vars

C6_Witness ==
    /\ last.op = "emplace" /\ last.exc = "T" /\ WasEngaged(S) /\ ~Engaged(S)

\* C7: when a T constructor or T assignment throws during copy-, move- or
\* value-assignment, the exception leaves the operation and the engaged
\* states of target and source are what they were.
C7_AssignThrows ==
    (last.op \in {"=copy", "=move", "=const T&", "=T&&"} /\ ~Ok) =>
        /\ last.exc = "T"
        /\ Engaged(S) = WasEngaged(S)
        /\ Engaged(O) = WasEngaged(O)
        /\ \A i \in Opt : opt[i].alive = last.pre[i].alive

C7_Witness ==
    /\ last.op = "=copy" /\ last.exc = "T" /\ S # O
    /\ ~WasEngaged(S) /\ WasEngaged(O) /\ ~Engaged(S)

\* C8: value() throws bad_optional_access exactly on a disengaged optional
\* (no other operation throws it), returns the stored value on an engaged
\* one, and changes neither the engaged state nor the value.
C8_Value ==
    /\ (last.op = "value") =>
        /\ (~WasEngaged(S) => last.exc = "bad_optional_access")
        /\ (WasEngaged(S) => Ok /\ last.ret = last.pre[S].value)
        /\ opt = last.pre
        /\ TLog(log) = <<>>
    /\ (last.exc = "bad_optional_access") => (last.op = "value" /\ ~WasEngaged(S))

C8_Witness ==
    /\ last.op = "value" /\ last.exc = "bad_optional_access" /\ ~Engaged(S)

\* C9: value_or returns the contained value of an engaged optional and
\* the default of a disengaged one, and never changes the engaged state;
\* the const overload changes nothing at all, the rvalue overload at most
\* moves from the contained value.
C9_ValueOr ==
    (last.op \in {"value_or", "value_or&&"}) =>
        /\ Ok => last.ret = (IF WasEngaged(S) THEN last.pre[S].value ELSE last.arg)
        /\ \A i \in Opt : /\ opt[i].alive = last.pre[i].alive
                          /\ opt[i].engaged = last.pre[i].engaged
        /\ (last.op = "value_or" \/ ~WasEngaged(S)) => opt = last.pre
        /\ opt[S].value \in {last.pre[S].value, Moved}
        /\ At(log, "dtor", S) = {}

C9_Witness ==
    /\ last.op = "value_or&&" /\ Ok /\ ~WasEngaged(S) /\ ~Engaged(S)
    /\ last.arg = "x" /\ last.ret = "x"

\* C10: a completed swap exchanges the engaged states and the values.
C10_Swap ==
    (last.op = "swap" /\ Ok) =>
        /\ Engaged(S) = WasEngaged(O) /\ Engaged(O) = WasEngaged(S)
        /\ opt[S].value = last.pre[O].value
        /\ opt[O].value = last.pre[S].value

C10_Witness ==
    /\ last.op = "swap" /\ Ok /\ S # O
    /\ last.pre[S] = [alive |-> TRUE, engaged |-> TRUE, value |-> "x"]
    /\ last.pre[O] = [alive |-> TRUE, engaged |-> TRUE, value |-> "y"]
    /\ opt[S].value = "y" /\ opt[O].value = "x"

\* C11: a completed swap of two engaged optionals runs T's swap on the
\* contained values: one move-construction of the temporary, two move-
\* assignments, one destructor call (the temporary's) and nothing else;
\* no _engaged flag is written and both optionals are engaged.
C11_SwapEngaged ==
    (last.op = "swap" /\ Ok /\ S # O /\ WasEngaged(S) /\ WasEngaged(O)) =>
        /\ log = << <<"moveCtor", Temp>>, <<"move", S>>, <<"move", O>>, <<"dtor", Temp>> >>
        /\ Count(log, "dtor") = 1
        /\ At(log, "dtor", S) = {} /\ At(log, "dtor", O) = {}
        /\ Engaged(S) /\ Engaged(O)

C11_Witness ==
    /\ last.op = "swap" /\ Ok /\ S # O /\ WasEngaged(S) /\ WasEngaged(O)
    /\ c = [ctor |-> 2, copyCtor |-> 0, moveCtor |-> 1, dtor |-> 1, assign |-> 0, move |-> 2]

\* C12: a completed swap with exactly one side engaged move-constructs the
\* value into the disengaged side before anything happens to the source
\* side, then destroys the source's value; these are its only T
\* operations, and afterwards exactly the receiving side is engaged.
C12_SwapOneSided ==
    (last.op = "swap" /\ Ok /\ WasEngaged(S) # WasEngaged(O)) =>
        LET src == IF WasEngaged(S) THEN S ELSE O
            dst == IF WasEngaged(S) THEN O ELSE S
        IN  /\ TLog(log) = << <<"moveCtor", dst>>, <<"dtor", src>> >>
            /\ log[1] = <<"moveCtor", dst>>
            /\ \A n \in DOMAIN log : log[n][2] = src => n > 1
            /\ Engaged(dst) /\ ~Engaged(src)
            /\ opt[dst].value = last.pre[src].value

C12_Witness ==
    /\ last.op = "swap" /\ Ok /\ WasEngaged(S) /\ ~WasEngaged(O)
    /\ last.pre[S].value = "x" /\ opt[O].value = "x" /\ ~Engaged(S)
    /\ c = [ctor |-> 1, copyCtor |-> 0, moveCtor |-> 1, dtor |-> 1, assign |-> 0, move |-> 0]

\* C13: an operation in which no engaged optional takes part runs no T
\* constructor, destructor or assignment: default and nullopt construction,
\* copy/move construction from a disengaged optional, assigning a
\* disengaged optional or nullopt to a disengaged optional, swapping two
\* disengaged optionals, destroying a disengaged optional.
C13_NothingEngaged ==
    (\/ last.op \in {"optional()", "optional(nullopt)"}
     \/ last.op \in {"optional(const optional&)", "optional(optional&&)"} /\ ~WasEngaged(O)
     \/ last.op \in {"=copy", "=move", "swap"} /\ ~WasEngaged(S) /\ ~WasEngaged(O)
     \/ last.op \in {"=nullopt", "~optional"} /\ ~WasEngaged(S)) =>
        /\ TLog(log) = <<>>
        /\ Ok
        /\ \A i \in Opt : ~opt[i].engaged \/ last.pre[i].engaged

C13_Witness ==
    /\ last.op = "~optional" /\ ~trivial /\ last.pre[S].alive /\ ~WasEngaged(S)
    /\ c = Counters

\* C14: a default-constructed optional and one constructed from nullopt
\* are disengaged, equal nullopt in both argument orders, and equal every
\* disengaged optional of the scope (each other included), in both orders.
C14_DisengagedEqual ==
    (last.op \in {"optional()", "optional(nullopt)"}) =>
        /\ opt[S].alive /\ ~Engaged(S)
        /\ operator_eq_nullopt(Cur, S) /\ nullopt_eq_operator(Cur, S)
        /\ \A j \in Opt : (opt[j].alive /\ ~last.pre[j].engaged) =>
               (operator_eq(Cur, S, j) /\ operator_eq(Cur, j, S))

C14_Witness ==
    /\ last.op = "optional(nullopt)" /\ S = "b"
    /\ opt["a"].alive /\ ~opt["a"].engaged /\ c = Counters
    /\ operator_eq(Cur, "a", "b")

\* C15: a completed copy- (move-) construction gives the new optional the
\* source's engaged state; from an engaged source its value comes from
\* exactly one T copy- (move-) construction from the source's value and no
\* other T operation, and a copy compares equal to its source; from a
\* disengaged source nothing is constructed.
C15_CopyMoveConstruct ==
    (last.op \in {"optional(const optional&)", "optional(optional&&)"} /\ Ok) =>
        LET made == IF last.op = "optional(const optional&)" THEN "copyCtor" ELSE "moveCtor"
        IN  /\ opt[S].alive /\ Engaged(S) = WasEngaged(O)
            /\ TLog(log) = IF WasEngaged(O) THEN << <<made, S>> >> ELSE <<>>
            /\ opt[S].value = last.pre[O].value
            /\ (made = "copyCtor") => (operator_eq(Cur, S, O) /\ opt[O] = last.pre[O])

C15_Witness ==
    /\ last.op = "optional(const optional&)" /\ Ok /\ WasEngaged(O)
    /\ opt[S] = [alive |-> TRUE, engaged |-> TRUE, value |-> "x"]
    /\ opt[O] = opt[S]

C17_AssignNullopt ==
    /\ (last.op = "=nullopt") =>
        /\ ~Engaged(S) /\ Ok
        /\ TLog(log) = IF WasEngaged(S) THEN << <<"dtor", S>> >> ELSE <<>>
    /\ \A i \in Opt : opt[i].alive =>
        LET once  == assign_nullopt(Cur, i)
            twice == assign_nullopt(once, i)
        IN  /\ ~once.opt[i].engaged
            /\ twice = once
            /\ Total(once.c) - Total(c) = (IF opt[i].engaged THEN 1 ELSE 0)

C17_Witness ==
    /\ last.op = "=nullopt" /\ WasEngaged(S) /\ ~Engaged(S)
    /\ c.dtor = 1 /\ assign_nullopt(Cur, S).c.dtor = 1

\* C18: a completed value assignment leaves the optional engaged with the
\* assigned value: on an engaged optional through exactly one T operator=
\* (copy or move, as the argument is an lvalue or an rvalue), on a
\* disengaged one through exactly one T construction.
C18_AssignValue ==
    (last.op \in {"=const T&", "=T&&"} /\ Ok) =>
        LET copy == last.op = "=const T&"
        IN  /\ Engaged(S) /\ opt[S].value = last.arg
            /\ TLog(log) = IF WasEngaged(S)
                           THEN << <<IF copy THEN "assign" ELSE "move", S>> >>
                           ELSE << <<IF copy THEN "copyCtor" ELSE "moveCtor", S>> >>

C18_Witness ==
    /\ last.op = "=const T&" /\ Ok /\ ~WasEngaged(S) /\ last.pre[S].alive
    /\ Engaged(S) /\ opt[S].value = "y"

\* C19: the hash of an engaged optional is std::hash<T> of its value, the
\* hash of a disengaged optional is the value-initialised result_type, so
\* two disengaged optionals hash equal.
C19_Hash ==
    \A i \in Opt : opt[i].alive =>
        /\ std_hash(Cur, i) = IF opt[i].engaged THEN hash_T(opt[i].value)
                              ELSE result_type_zero
        /\ \A j \in Opt : (opt[j].alive /\ ~opt[i].engaged /\ ~opt[j].engaged) =>
               std_hash(Cur, i) = std_hash(Cur, j)

C19_Witness ==
    /\ opt["a"] = [alive |-> TRUE, engaged |-> TRUE, value |-> "x"]
    /\ opt["b"] = [alive |-> TRUE, engaged |-> FALSE, value |-> None]
    /\ std_hash(Cur, "a") = hash_T("x") /\ std_hash(Cur, "b") = result_type_zero

C21_Compare ==
    \A i, j \in Opt : (opt[i].alive /\ opt[j].alive) =>
        /\ operator_eq(Cur, i, j) <=>
             \/ ~Engaged(i) /\ ~Engaged(j)
             \/ Engaged(i) /\ Engaged(j) /\ T_eq(deref(Cur, i), deref(Cur, j))
        /\ operator_lt(Cur, i, j) <=>
             (Engaged(j) /\ (~Engaged(i) \/ T_lt(deref(Cur, i), deref(Cur, j))))
        /\ (~Engaged(i) /\ ~Engaged(j)) => operator_eq(Cur, i, j)
        /\ (~Engaged(i) /\ Engaged(j)) => operator_lt(Cur, i, j)
        /\ (Engaged(i) /\ ~Engaged(j)) => ~operator_lt(Cur, i, j)

C21_Witness ==
    /\ opt["a"].alive /\ opt["b"].alive
    /\ ~Engaged("a") /\ Engaged("b") /\ opt["b"].value = "x"
    /\ last.op = "=nullopt" /\ S = "a" /\ WasEngaged("a")
    /\ operator_lt(Cur, "a", "b") /\ ~operator_lt(Cur, "b", "a")
    /\ ~operator_eq(Cur, "a", "b") /\ operator_eq(Cur, "a", "a")

----------------------------------------------------------------------------
(* xtd::basic_string_view<CharT> (string_view header) over a character     *)
(* array.  A pointer is an offset into the array, 0 for its first element; *)
(* an iterator is the pointer it wraps.                                    *)

\* Width in bits of size_type and difference_type.
SizeBits == 3
SizeMod == 2 ^ SizeBits
size_type == 0 .. (SizeMod - 1)

\* static constexpr size_type npos = size_type(-1).
npos == SizeMod - 1

\* Longest character array a view is constructed over.
MaxLen == 2

\* Longest string passed as the set or the needle of a search.
MaxArg == 2

CharT == {"a", "b"}

\* What a read outside the array may find: any character, or the
\* terminator of a C string.
NUL == "0"
Outside == CharT \cup {NUL}

Strings(n) == UNION {[1 .. k -> CharT] : k \in 0 .. n}

\* Positions passed as pos: inside the view, its end, past it, and npos.
Positions == (0 .. (MaxLen + 1)) \cup {npos}

\* Conversion of a size_type to difference_type (two's complement).
to_difference(n) == IF n >= SizeMod \div 2 THEN n - SizeMod ELSE n

\* Conversion of a difference_type to size_type.
to_size(d) == d % SizeMod

NoCall == [op |-> "none", a1 |-> None, a2 |-> None, ret |-> None,
           exc |-> "none", reads |-> {}]

\* basic_string_view(const CharT* chars, size_type len).
basic_string_view(b, d, l) == [buf |-> b, data |-> d, len |-> l, call |-> NoCall]

size(v) == v.len
begin(v) == v.data
end(v) == begin(v) + size(v)

\* The character a pointer refers to; x is what lies outside the array.
CharAt(v, p, x) == IF p \in 0 .. (Len(v.buf) - 1) THEN v.buf[p + 1] ELSE x

\* operator[] of the view.
subscript(v, pos) == v.buf[v.data + pos + 1]

\* The view as a string.
to_string(v) == [k \in 1 .. v.len |-> subscript(v, k - 1)]

\* private begin(pos): the iterator at min(pos, size()).
begin_pos(v, pos) == begin(v) + (IF pos > size(v) THEN size(v) ELSE pos)

\* private end(pos, n): iterator + size_type converts to difference_type.
end_pos_n(v, pos, n) ==
    begin_pos(v, pos) +
        to_difference(IF n = npos \/ (n + pos) % SizeMod > size(v)
                      THEN (size(v) - pos) % SizeMod
                      ELSE n)

\* private rbegin(pos): the base of the reverse iterator.
rbegin_pos(v, pos) == IF pos = npos THEN end(v) ELSE begin_pos(v, pos)

forwardIterOffset(v, it) == IF it = end(v) THEN npos ELSE to_size(it - begin(v))

\* reverseIterOffset, the reverse iterator given by its base; rend()'s base
\* is begin().
reverseIterOffset(v, base) == IF base = begin(v) THEN npos ELSE to_size(base - 1 - begin(v))

\* Traits::find(s.data(), s.size(), ch) != nullptr.
traits_find(str, ch) == \E k \in DOMAIN str : str[k] = ch

\* private findNotOf over forward iterators: the loop condition
\* first++ != last compares and then increments, so the body looks at the
\* element after the one compared.  reads collects the pointers read.
RECURSIVE findNotOf(_, _, _, _, _, _)
findNotOf(v, firstIt, lastIt, str, x, reads) ==
    IF firstIt = lastIt
    THEN [it |-> lastIt, reads |-> reads]
    ELSE LET f == firstIt + 1
         IN  IF ~traits_find(str, CharAt(v, f, x))
             THEN [it |-> f, reads |-> reads \cup {f}]
             ELSE findNotOf(v, f, lastIt, str, x, reads \cup {f})

\* find_first_not_of(basic_string_view str, size_type pos).
find_first_not_of(v, str, pos, x) ==
    LET r == findNotOf(v, begin_pos(v, pos), end(v), str, x, {})
    IN  [NoCall EXCEPT !.op = "find_first_not_of", !.a1 = str, !.a2 = pos,
                       !.ret = forwardIterOffset(v, r.it), !.reads = r.reads]

\* std::find_end(firstIt, lastIt, s_first, s_last): the start of the lastIt
\* occurrence of the needle in [first, last), or last.
std_find_end(v, firstIt, lastIt, str) ==
    LET found == {p \in firstIt .. (lastIt - Len(str)) :
                    \A k \in DOMAIN str : v.buf[p + k] = str[k]}
    IN  IF str = <<>> \/ found = {}
        THEN lastIt
        ELSE CHOOSE p \in found : \A q \in found : q <= p

\* std::find_if(rbegin(), rend(), pred): the base of the firstIt reverse
\* iterator whose element is ch, or the base of rend().
std_find_if_reverse(v, rfirst, rlast, ch) ==
    LET found == {b \in (rlast + 1) .. rfirst : v.buf[b] = ch}
    IN  IF found = {}
        THEN rlast
        ELSE CHOOSE b \in found : \A q \in found : q <= b

\* rfind(basic_string_view str, size_type pos).
rfind_str(v, str, pos) ==
    forwardIterOffset(v,
        std_find_end(v, begin(v), IF pos = npos THEN end(v) ELSE begin_pos(v, pos), str))

\* rfind(CharT ch, size_type pos).
rfind_ch(v, ch, pos) ==
    reverseIterOffset(v, std_find_if_reverse(v, end(v), begin(v), ch))

\* basic_string_view(const_iterator first, const_iterator last).
from_iterators(firstIt, lastIt) == [data |-> firstIt, len |-> to_size(lastIt - firstIt)]

\* substr(size_type pos, size_type n).
substr(v, pos, n) ==
    IF pos > size(v)
    THEN [NoCall EXCEPT !.op = "substr", !.a1 = pos, !.a2 = n, !.exc = "out_of_range"]
    ELSE [NoCall EXCEPT !.op = "substr", !.a1 = pos, !.a2 = n,
                        !.ret = from_iterators(begin_pos(v, pos), end_pos_n(v, pos, n))]

\* The relational operators of string_view_iterator: the parameters are
\* declared (rhs, lhs), so the first argument is rhs.
iterator_lt(rhs, lhs) == lhs < rhs
iterator_gt(rhs, lhs) == lhs > rhs
iterator_le(rhs, lhs) == lhs <= rhs
iterator_ge(rhs, lhs) == lhs >= rhs
iterator_minus(lhs, rhs) == lhs - rhs

----------------------------------------------------------------------------
(* The state machine of a view: constructed over a whole array, narrowed   *)
(* by remove_prefix and remove_suffix, and queried.                        *)

OptionalIdle ==
    /\ opt = [i \in Opt |-> Dead] /\ c = Counters /\ trivial = FALSE
    /\ log = <<>> /\ last = NoOp
    /\ twin = [opt |-> [i \in Opt |-> Dead], log |-> <<>>, exc |-> "none", ret |-> None]

InitSV ==
    /\ OptionalIdle /\ num = Idle /\ mem = Idle
    /\ \E b \in Strings(MaxLen) : sv = basic_string_view(b, 0, Len(b))

\* A call returns: the view records it.
Called(v, call) ==
    /\ sv' = [v EXCEPT !.call = call]
    /\ UNCHANGED <<opt, c, trivial, log, last, twin, num, mem>>

RemovePrefix ==
    \E n \in 0 .. size(sv) :
        Called([sv EXCEPT !.data = sv.data + n, !.len = sv.len - n],
               [NoCall EXCEPT !.op = "remove_prefix", !.a1 = n])

RemoveSuffix ==
    \E n \in 0 .. size(sv) :
        Called([sv EXCEPT !.len = sv.len - n],
               [NoCall EXCEPT !.op = "remove_suffix", !.a1 = n])

FindFirstNotOf ==
    \E str \in Strings(MaxArg), pos \in Positions, x \in Outside :
        Called(sv, find_first_not_of(sv, str, pos, x))

RfindCh ==
    \E ch \in CharT, pos \in Positions :
        Called(sv, [NoCall EXCEPT !.op = "rfind(ch)", !.a1 = ch, !.a2 = pos,
                                  !.ret = rfind_ch(sv, ch, pos)])

RfindStr ==
    \E str \in Strings(MaxArg), pos \in Positions :
        Called(sv, [NoCall EXCEPT !.op = "rfind(str)", !.a1 = str, !.a2 = pos,
                                  !.ret = rfind_str(sv, str, pos)])

Substr ==
    \E pos \in Positions, n \in size_type : Called(sv, substr(sv, pos, n))

\* Two iterators into the view, begin() + i and begin() + j, compared.
IteratorCompare ==
    \E i, j \in 0 .. size(sv) :
        LET p == begin(sv) + i
            q == begin(sv) + j
        IN  Called(sv, [NoCall EXCEPT !.op = "iterator", !.a1 = i, !.a2 = j,
                          !.ret = [lt |-> iterator_lt(p, q), gt |-> iterator_gt(p, q),
                                   le |-> iterator_le(p, q), ge |-> iterator_ge(p, q),
                                   minus |-> iterator_minus(q, p)]])

NextSV ==
    \/ RemovePrefix
    \/ RemoveSuffix
    \/ FindFirstNotOf
    \/ RfindCh
    \/ RfindStr
    \/ Substr
    \/ IteratorCompare

SpecSV == InitSV /\ [][NextSV]_vars

\* Vocabulary of the string_view properties.
Call == sv.call
InView(i) == i \in 0 .. (size(sv) - 1)

\* C22: find_first_not_of(set, pos) returns the smallest index i >= pos of
\* the view whose character is not contained in set, npos when there is
\* none, and reads no character outside [0, size()).
C22_FindFirstNotOf ==
    (Call.op = "find_first_not_of") =>
        LET hits == {i \in 0 .. (size(sv) - 1) :
                       i >= Call.a2 /\ ~traits_find(Call.a1, subscript(sv, i))}
        IN  /\ Call.ret = IF hits = {} THEN npos
                          ELSE CHOOSE i \in hits : \A k \in hits : i <= k
            /\ \A p \in Call.reads : InView(p - begin(sv))

\* C23: rfind(ch, pos) returns what rfind(basic_string_view{&ch, 1}, pos)
\* returns, for every view, character and pos.
C23_RfindEquivalent ==
    (Call.op = "rfind(ch)") => Call.ret = rfind_str(sv, <<Call.a1>>, Call.a2)

\* C24: substr(pos, n) throws std::out_of_range exactly when pos > size();
\* otherwise the result starts at data() + pos, has length
\* min(n, size() - pos) for every n of size_type, and does not extend past
\* the view.
C24_Substr ==
    (Call.op = "substr") =>
        LET pos == Call.a1
            n == Call.a2
        IN  /\ (Call.exc = "out_of_range") <=> (pos > size(sv))
            /\ (pos <= size(sv)) =>
                 /\ Call.ret.data = sv.data + pos
                 /\ Call.ret.len = IF n < size(sv) - pos THEN n ELSE size(sv) - pos
                 /\ Call.ret.data + Call.ret.len <= end(sv)

\* C30: for two iterators i and j into the same view, i < j exactly when
\* j - i > 0, i > j exactly when j - i < 0, i <= j and i >= j are the
\* non-strict counterparts, and begin() < end() for a non-empty view.
C30_IteratorOrder ==
    (Call.op = "iterator") =>
        /\ Call.ret.lt <=> (Call.ret.minus > 0)
        /\ Call.ret.gt <=> (Call.ret.minus < 0)
        /\ Call.ret.le <=> (Call.ret.minus >= 0)
        /\ Call.ret.ge <=> (Call.ret.minus <= 0)
        /\ (Call.a1 = 0 /\ Call.a2 = size(sv) /\ size(sv) > 0) => Call.ret.lt

----------------------------------------------------------------------------
(* xtd::accumulate (numeric header): one call, one loop iteration per      *)
(* step.  An iterator is an index into the range, 0 for its first element. *)

\* Longest range accumulated.
MaxRange == 2

\* Loop iterations followed before the call is left running.
MaxSteps == 4

Elem == {1, 2}
Ranges == UNION {[1 .. k -> Elem] : k \in 0 .. MaxRange}

\* The overloads: (first, last, init), (range, init), (ilist, init), each
\* with and without a BinaryOperation.
Overloads == {"iterators", "range", "ilist"}

\* init + x, and a BinaryOperation that is neither commutative nor
\* associative.
BinaryOperations == {"plus", "op"}
Apply(f, a, x) == IF f = "plus" THEN a + x ELSE 2 * a + x

\* The call is entered.
accumulate(overload, range, init, f) ==
    [call |-> overload, range |-> range, op |-> f, init0 |-> init,
     first |-> 0, last |-> Len(range), init |-> init, n |-> 0, pc |-> "loop"]

InitNum ==
    /\ OptionalIdle /\ sv = Idle /\ mem = Idle
    /\ \E o \in Overloads, r \in Ranges, i \in 0 .. 1, f \in BinaryOperations :
         num = accumulate(o, r, i, f)

NumStep(n) == num' = n /\ UNCHANGED <<opt, c, trivial, log, last, twin, sv, mem>>

\* for(; first != last; ++last) init = init + *first;
\* the body, then ++last.  Incrementing last when it is already past the
\* end of the range is undefined: the loop goes on or the program dies.
IteratorsBody ==
    /\ num.call = "iterators" /\ num.pc = "loop" /\ num.n < MaxSteps
    /\ num.first # num.last
    /\ \/ NumStep([num EXCEPT !.init = Apply(num.op, num.init, num.range[num.first + 1]),
                              !.last = num.last + 1, !.n = num.n + 1])
       \/ /\ num.last >= Len(num.range)
          /\ NumStep([num EXCEPT !.init = Apply(num.op, num.init, num.range[num.first + 1]),
                                 !.n = num.n + 1, !.pc = "crashed"])

\* first == last: return init.
IteratorsReturn ==
    /\ num.call = "iterators" /\ num.pc = "loop"
    /\ num.first = num.last
    /\ NumStep([num EXCEPT !.pc = "done"])

\* for(auto&& x : range) init = init + x;
RangeBody ==
    /\ num.call \in {"range", "ilist"} /\ num.pc = "loop"
    /\ num.first # num.last
    /\ NumStep([num EXCEPT !.init = Apply(num.op, num.init, num.range[num.first + 1]),
                           !.first = num.first + 1, !.n = num.n + 1])

RangeReturn ==
    /\ num.call \in {"range", "ilist"} /\ num.pc = "loop"
    /\ num.first = num.last
    /\ NumStep([num EXCEPT !.pc = "done"])

NextNum ==
    \/ IteratorsBody
    \/ IteratorsReturn
    \/ RangeBody
    \/ RangeReturn

SpecNum == InitNum /\ [][NextNum]_vars

\* std::accumulate: init folded left to right with the elements.
RECURSIVE Fold(_, _, _)
Fold(f, a, seq) == IF seq = <<>> THEN a ELSE Fold(f, Apply(f, a, Head(seq)), Tail(seq))

\* C25: a call of accumulate over a finite range terminates (it runs at
\* most one iteration per element and does not die), folds each element
\* exactly once from left to right, and returns the fold; the iterator
\* overload returns what the range and initializer-list overloads return
\* for the same elements.
C25_Accumulate ==
    /\ num.pc # "crashed"
    /\ num.n <= Len(num.range)
    /\ num.init = Fold(num.op, num.init0, SubSeq(num.range, 1, num.n))
    /\ (num.pc = "done") => num.init = Fold(num.op, num.init0, num.range)

----------------------------------------------------------------------------
(* xtd::align_up, align_down, is_aligned (memory header).  Both returns of *)
(* align_up must have one type, so Integral is std::size_t or a type the   *)
(* usual arithmetic conversions prefer to it: an unsigned type of the same *)
(* width, or a wider signed one (long long where size_t has 32 bits).      *)

\* Largest alignment passed.
MaxAlign == 4

Integral == {"size_t", "long long"}

\* The values of x tried: every size_t, and for the wider signed type the
\* values around zero, where no operation overflows.
ValuesOf(type) ==
    IF type = "size_t" THEN size_type ELSE (-(SizeMod \div 2)) .. (SizeMod \div 2 - 1)

\* Arithmetic in the common type of Integral and std::size_t.
Wrap(type, n) == IF type = "size_t" THEN n % SizeMod ELSE n

\* Integer division of C++, which truncates towards zero.
Div(a, b) == IF a >= 0 THEN a \div b ELSE -((-a) \div b)

\* The remainder that goes with it.
Rem(a, b) == a - b * Div(a, b)

align_up(type, x, alignment) ==
    IF alignment < 1
    THEN x
    ELSE Wrap(type, alignment * Div(Wrap(type, Wrap(type, x + alignment) - 1), alignment))

align_down(type, x, alignment) ==
    IF alignment < 1
    THEN x
    ELSE Wrap(type, alignment * Div(x, alignment))

\* is_aligned(Integral x, std::size_t alignment), alignment >= 1.
is_aligned(x, alignment) == Rem(x, alignment) = 0

\* Nothing called yet.
NoAlign == [call |-> "none", type |-> "size_t", x |-> 0, alignment |-> 0, ret |-> 0]

InitMem ==
    /\ OptionalIdle /\ sv = Idle /\ num = Idle
    /\ mem = NoAlign

Returned_mem(call, type, x, alignment, ret) ==
    /\ mem' = [NoAlign EXCEPT !.call = call, !.type = type, !.x = x,
                              !.alignment = alignment, !.ret = ret]
    /\ UNCHANGED <<opt, c, trivial, log, last, twin, sv, num>>

AlignUp ==
    \E type \in Integral, alignment \in 0 .. MaxAlign :
        \E x \in ValuesOf(type) :
            Returned_mem("align_up", type, x, alignment, align_up(type, x, alignment))

AlignDown ==
    \E type \in Integral, alignment \in 0 .. MaxAlign :
        \E x \in ValuesOf(type) :
            Returned_mem("align_down", type, x, alignment, align_down(type, x, alignment))

\* x % 0 is undefined: the call answers anything or the program dies.
IsAligned ==
    \E type \in Integral, alignment \in 0 .. MaxAlign :
        \E x \in ValuesOf(type) :
            \/ /\ alignment >= 1
               /\ Returned_mem("is_aligned", type, x, alignment, is_aligned(x, alignment))
            \/ /\ alignment = 0
               /\ \E r \in BOOLEAN, call \in {"is_aligned", "crashed"} :
                    Returned_mem(call, type, x, alignment, r)

NextMem ==
    \/ AlignUp
    \/ AlignDown
    \/ IsAligned

SpecMem == InitMem /\ [][NextMem]_vars

\* C26: for every integral x and every alignment >= 1, align_up(x,
\* alignment) is the smallest multiple of alignment that is >= x,
\* align_down(x, alignment) is the largest multiple of alignment that is
\* <= x, and is_aligned holds for both results; for alignment 0 both
\* return x unchanged.
C26_Align ==
    LET a == mem.alignment
        x == mem.x
        r == mem.ret
    IN  /\ (mem.call \in {"align_up", "align_down"} /\ a = 0) => r = x
        /\ (mem.call = "align_up" /\ a >= 1) =>
               (is_aligned(r, a) /\ r >= x /\ r - x < a)
        /\ (mem.call = "align_down" /\ a >= 1) =>
               (is_aligned(r, a) /\ r <= x /\ x - r < a)

\* The constructions and destructions of a log on slot i's storage.
Lifetime(l, i) ==
    SelectSeq(l, LAMBDA e : e[2] = i /\ e[1] \in {"ctor", "copyCtor", "moveCtor", "dtor"})

\* C27: in every operation of the scope (constructors, copy, move, value
\* and nullopt assignment, emplace, swap, self-assignment and self-swap
\* included) engage() is entered only on a disengaged optional, so its
\* assertion never fails, in either holder; and on each optional's
\* storage constructions and destructions alternate, starting with a
\* destruction exactly when a T was alive there: no live T is constructed
\* over.
C27_EngageOnDisengaged ==
    /\ Count(log, "assert_fail") = 0
    /\ Count(twin.log, "assert_fail") = 0
    /\ \A i \in Opt :
         LET ev == Lifetime(log, i)
             live == last.pre[i].alive /\ last.pre[i].engaged
         IN  \A k \in DOMAIN ev : (ev[k][1] = "dtor") <=> (live <=> (k % 2 = 1))

C27_Witness ==
    /\ last.op = "emplace" /\ WasEngaged(S) /\ Engaged(S) /\ Ok
    /\ Lifetime(log, S) = << <<"dtor", S>>, <<"ctor", S>> >>
    /\ Count(log, "assert_fail") = 0
    /\ \E i \in Opt : i # S /\ opt[i].alive /\ Engaged(i)

\* C28: for every optional o of the scope, engaged or not, and every value
\* v, each of o == v, v == o, o != v, v != o, o < v, v < o, o > v, v > o
\* gives the result of the same comparison with optional<T>(v) in place of
\* v, and o < v and o > v are never both true.
C28_RawValueCompare ==
    \A i \in Opt, v \in Val : opt[i].alive =>
        \E j \in Opt \ {i} :
            LET m == optional_of(Cur, j, v)
            IN  /\ operator_eq_value(Cur, i, v) = operator_eq(m, i, j)
                /\ value_eq_operator(Cur, v, i) = operator_eq(m, j, i)
                /\ operator_ne_value(Cur, i, v) = operator_ne(m, i, j)
                /\ value_ne_operator(Cur, v, i) = operator_ne(m, j, i)
                /\ operator_lt_value(Cur, i, v) = operator_lt(m, i, j)
                /\ value_lt_operator(Cur, v, i) = operator_lt(m, j, i)
                /\ operator_gt_value(Cur, i, v) = operator_gt(m, i, j)
                /\ value_gt_operator(Cur, v, i) = operator_gt(m, j, i)
                /\ ~(operator_lt_value(Cur, i, v) /\ operator_gt_value(Cur, i, v))

\* C29: if a T operation throws during swap no engaged state changes:
\* with exactly one side engaged (T's move constructor throws) both
\* optionals are exactly as before, the engaged one with its value; with
\* both sides engaged (T's swap throws) both are still engaged and
\* nothing was constructed or destroyed in their storage, the temporary of
\* T's swap being destroyed if it was constructed.  Each contained T is
\* therefore still destroyed exactly once: destroying an optional right
\* after the failed swap runs ~T() once if it is engaged (never for a
\* trivially destructible T) and not at all otherwise.
C29_SwapThrows ==
    /\ [](  (last.op = "swap" /\ ~Ok) =>
              /\ \A i \in {S, O} : Engaged(i) = WasEngaged(i) /\ Lifetime(log, i) = <<>>
              /\ (WasEngaged(S) # WasEngaged(O)) =>
                     (opt = last.pre /\ TLog(log) = <<>>)
              /\ (WasEngaged(S) /\ WasEngaged(O)) =>
                     /\ Engaged(S) /\ Engaged(O)
                     /\ opt[S].value \in Val /\ opt[O].value \in Val
                     /\ Count(log, "dtor") = Count(log, "moveCtor")
              /\ ~trivial => LiveValues = Constructed(c) - c.dtor )
    /\ [][ (last.op = "swap" /\ ~Ok /\ last'.op = "~optional") =>
              TLog(log') = IF opt[last'.self].engaged /\ ~trivial
                           THEN << <<"dtor", last'.self>> >>
                           ELSE <<>> ]_vars

C29_Witness ==
    /\ last.op = "swap" /\ ~Ok /\ S # O
    /\ WasEngaged(S) /\ ~WasEngaged(O)
    /\ Engaged(S) /\ ~Engaged(O) /\ opt[S].value = "x"
    /\ Count(log, "throw") = 1

=============================================================================
